---- MODULE Spec2Model ----
(***************************************************************************)
(* State-machine model of the NYC Zoning Intelligence Platform backend:    *)
(* the relational tables (properties, zoning_districts, property_zoning,   *)
(* property_tax_incentives, tax_incentive_programs, air_rights) and the    *)
(* service-layer operations over them (backend/app/services).              *)
(*                                                                         *)
(* Conventions                                                             *)
(*  - Python None / SQL NULL for a numeric field or a geometry is the      *)
(*    empty tuple <<>>, a present number v is <<v>>; for a string field    *)
(*    it is "None".                                                        *)
(*  - A FAR value is an integer number of tenths (12.0 is 120); an area   *)
(*    is an integer number of units of 500 square feet (25000 is 50); a    *)
(*    price per square foot is in quarter-dollars (162.5 is 650).          *)
(*  - A zoning code is the sequence of its characters, so that             *)
(*    str.startswith is computed and not assumed.                          *)
(*  - A point geometry POINT(lon lat) is the pair <<lon, lat>>; a district *)
(*    MULTIPOLYGON is the set of points it intersects.                     *)
(*  - A Python call returns [exc |-> "none", val |-> v] or raises,         *)
(*    [exc |-> "<ExceptionClass>"].                                        *)
(*  - Every request handler runs its synchronous service code to the end   *)
(*    before another starts, so one operation is one action.               *)
(*  - A SQL statement fails when it names a column its table lacks or a    *)
(*    function the dialect lacks; the failure is that of the statement     *)
(*    alone, the handlers that catch it go on with the same session.       *)
(***************************************************************************)
EXTENDS Integers, Sequences, FiniteSets, TLC

VARIABLES
    is_postgresql,            \* session.get_bind().dialect.name == 'postgresql'
    properties,               \* table properties: id -> row
    zoning_districts,         \* table zoning_districts: set of rows
    tax_incentive_programs,   \* table tax_incentive_programs: set of program codes
    property_zoning,          \* table property_zoning: set of rows
    property_tax_incentives,  \* table property_tax_incentives: set of rows
    air_rights,               \* table air_rights: set of rows
    last,                     \* the last call: operation, arguments, outcome
    requests,                 \* API requests under get_db: where each one is
    db_sessions,              \* the sessions SessionLocal() has created
    geocoding                 \* the call of geocode_address: where it is

vars == <<is_postgresql, properties, zoning_districts, tax_incentive_programs,
          property_zoning, property_tax_incentives, air_rights, last,
          requests, db_sessions, geocoding>>

session_vars == <<requests, db_sessions>>

process_vars == <<session_vars, geocoding>>

tables == <<properties, zoning_districts, tax_incentive_programs,
            property_zoning, property_tax_incentives, air_rights>>

-----------------------------------------------------------------------------
(* Bounds and input sets *)

MaxProps == 2

PropIds == 1..MaxProps

None == <<>>

Some(v) == <<v>>

Ok(v) == [exc |-> "none", val |-> v]

Raise(e) == [exc |-> e]

Raised(r) == r.exc # "none"

\* Requests PropertyCreate accepts: address is required and non-empty, every
\* other field is Optional[float] and carries no range constraint.  Areas in
\* units of 500 sq ft; latitude / longitude in units of 0.0001 degree, the
\* point given being POINT(-74.0121 40.7074) of the seeded C6-4 district.
PropertyCreateInputs ==
    { \* address and land area only
      [address |-> "123 Broadway", latitude |-> None, longitude |-> None,
       building_area_sf |-> None, land_area_sf |-> Some(50)],
      \* every field given
      [address |-> "123 Broadway", latitude |-> Some(407074),
       longitude |-> Some(-740121),
       building_area_sf |-> Some(300), land_area_sf |-> Some(50)],
      \* a negative land area
      [address |-> "123 Broadway", latitude |-> Some(407074),
       longitude |-> Some(-740121),
       building_area_sf |-> Some(300), land_area_sf |-> Some(-50)],
      \* no land area
      [address |-> "123 Broadway", latitude |-> Some(407074),
       longitude |-> Some(-740121),
       building_area_sf |-> Some(300), land_area_sf |-> None] }

\* Zoning codes as character sequences
C_R10 == <<"R", "1", "0">>

C_M1_1 == <<"M", "1", "-", "1">>

C_C6_4 == <<"C", "6", "-", "4">>

StartsWith(s, p) == Len(p) <= Len(s) /\ SubSeq(s, 1, Len(p)) = p

\* Python int(): truncation of n/d towards zero (d > 0)
IntOf(n, d) == IF n >= 0 THEN n \div d ELSE -((-n) \div d)

\* Python true division n / d for d # 0, in tenths; the input sets keep it exact
TrueDiv10(n, d) == IF d > 0 THEN IntOf(10 * n, d) ELSE IntOf(-(10 * n), -d)

Max(a, b) == IF a >= b THEN a ELSE b

-----------------------------------------------------------------------------
(* Schema *)

\* Columns of table zoning_districts
ZoningDistrictColumns ==
    {"id", "district_code", "district_name", "far_base", "far_with_bonus",
     "max_height_ft", "setback_requirements", "building_class", "geom",
     "created_at"}

\* Mapped attributes of PropertyTaxIncentive (keyword arguments its constructor accepts)
PropertyTaxIncentiveAttrs ==
    {"id", "property_id", "program_id", "is_eligible", "eligibility_reason",
     "estimated_abatement_value", "created_at", "property", "program"}

\* Rows seed_database.py inserts into zoning_districts; each covers one point here
SeedZoningDistricts ==
    { [district_code |-> C_C6_4, far_base |-> 60, far_with_bonus |-> 80,
       setback_requirements |-> [front |-> 0, rear |-> 15, side |-> 5],
       geom |-> {<<-740121, 407074>>}],
      [district_code |-> C_R10, far_base |-> 100, far_with_bonus |-> 120,
       setback_requirements |-> [front |-> 0, rear |-> 20, side |-> 8],
       geom |-> {<<-739708, 407614>>}],
      [district_code |-> C_M1_1, far_base |-> 20, far_with_bonus |-> 30,
       setback_requirements |-> [front |-> 0, rear |-> 10, side |-> 0],
       geom |-> {<<-739794, 406872>>}] }

\* Program codes seed_database.py inserts into tax_incentive_programs
SeedPrograms == {"ICAP", "467-M", "421-A"}


\* Columns of table landmarks
LandmarkColumns ==
    {"id", "name", "landmark_type", "description", "geom", "created_at"}

\* SQL functions the dialect provides among those the services call
SqlFunctions ==
    IF is_postgresql
    THEN {"ST_AsText", "ST_Area", "ST_Transform", "ST_Intersects", "ST_Touches",
          "ST_X", "ST_Y", "ST_Centroid", "ST_DWithin", "ST_Distance",
          "ST_SetSRID", "ST_MakePoint"}
    ELSE {}

-----------------------------------------------------------------------------
(* spatial_queries.py *)

Exists(property_id) == property_id \in DOMAIN properties

DictGet(d, k, default) == IF k \in DOMAIN d THEN d[k] ELSE default

\* Rows of zoning_districts whose geometry intersects the point, in some row order
RECURSIVE SeqOfSet(_)
SeqOfSet(S) ==
    IF S = {} THEN <<>>
    ELSE LET x == CHOOSE y \in S : TRUE IN <<x>> \o SeqOfSet(S \ {x})

\* The geometry of a property, or None: the statement calls ST_AsText, any
\* exception is swallowed and gives None
get_property_geometry(property_id) ==
    IF "ST_AsText" \notin SqlFunctions THEN None
    ELSE IF Exists(property_id) THEN properties[property_id].geom ELSE None

\* The constant the SQLite branch returns
MockDistrict ==
    [code |-> C_R10, base_far |-> 100, max_far |-> 120,
     setbacks |-> [front_ft |-> 10, side_ft |-> 5, rear_ft |-> 5]]

\* Columns the SELECT of find_zoning_districts names
FindZoningSelectColumns ==
    {"zoning_district_code", "zoning_district_name", "base_far", "max_far",
     "max_height_ft", "setbacks", "use_groups", "geom"}

\* The districts intersecting a geometry, as a list of dicts.  SQLite: the
\* mock constant.  PostgreSQL: the SELECT; a statement naming a column the
\* table lacks raises, the except clause returns [].
find_zoning_districts(geom) ==
    IF ~is_postgresql THEN <<MockDistrict>>
    ELSE IF ~(FindZoningSelectColumns \subseteq ZoningDistrictColumns) THEN <<>>
    ELSE LET rows == SeqOfSet({z \in zoning_districts : geom \in z.geom})
         IN [i \in DOMAIN rows |->
                [code |-> rows[i].district_code,
                 base_far |-> rows[i].far_base,
                 max_far |-> rows[i].far_with_bonus,
                 setbacks |-> rows[i].setback_requirements]]

\* ST_Area of a property geometry: the column is a POINT, whose area is 0
ST_Area(geom) == 0

\* calculate_far: every exception is swallowed into the error dict.
\* allowable_building_area_sf is in tenths of the area unit (FAR is in tenths).
calculate_far(property_id, districts, use_max_far) ==
    LET property_geom == get_property_geometry(property_id)
    IN IF property_geom = None
       THEN [far_effective |-> 0, error |-> "Property geometry not found"]
       ELSE LET lot_area_sf == IF is_postgresql THEN ST_Area(property_geom) ELSE 5
                far_value == IF districts # <<>>
                             THEN DictGet(districts[1],
                                          IF use_max_far THEN "max_far" ELSE "base_far", 0)
                             ELSE 0
                allowable_area == IF lot_area_sf # 0 /\ far_value # 0
                                  THEN lot_area_sf * far_value ELSE 0
            IN [far_effective |-> far_value,
                lot_area_sf |-> lot_area_sf,
                allowable_building_area_sf |-> allowable_area,
                zoning_districts |-> districts]

\* ST_Touches of two property geometries: both are POINTs, which have no
\* boundary and never touch
ST_Touches(g1, g2) == FALSE

\* Ids of the properties adjacent to a property (exceptions give [])
find_adjacent_properties(property_id) ==
    IF "ST_Touches" \notin SqlFunctions \/ ~Exists(property_id) THEN {}
    ELSE {p2 \in DOMAIN properties :
            p2 # property_id
            /\ ST_Touches(properties[property_id].geom, properties[p2].geom)}

\* (longitude, latitude) of a property, or None
get_property_centroid(property_id) ==
    IF ~Exists(property_id) \/ properties[property_id].geom = None THEN None
    ELSE LET g == properties[property_id].geom
         IN IF is_postgresql /\ (g[1] = 0 \/ g[2] = 0) THEN None ELSE g

\* get_zoning_summary: the districts of the property geometry; without a
\* geometry, and on any exception, an error dict
get_zoning_summary(property_id) ==
    LET geom == get_property_geometry(property_id)
    IN IF geom = None THEN [error |-> "Property geometry not found"]
       ELSE LET districts == find_zoning_districts(geom)
            IN [property_id |-> property_id,
                zoning_districts |-> districts,
                district_count |-> Len(districts)]

\* Columns the SELECT of find_nearby_landmarks names
FindLandmarksSelectColumns ==
    {"id", "name", "landmark_type", "address", "geom"}

\* Landmarks within the radius: the statement needs the spatial functions and
\* the columns it names; any exception gives []
find_nearby_landmarks(property_id, radius_ft) ==
    IF get_property_centroid(property_id) = None
       \/ "ST_DWithin" \notin SqlFunctions
       \/ ~(FindLandmarksSelectColumns \subseteq LandmarkColumns)
    THEN <<>>
    ELSE <<>>  \* rows of table landmarks, which no operation here fills


-----------------------------------------------------------------------------
(* air_rights_service.py *)

\* [d["district_code"] for d in zoning_districts]: KeyError on the first dict
\* without that key
zone_codes_of(districts) ==
    IF \E i \in DOMAIN districts : "district_code" \notin DOMAIN districts[i]
    THEN Raise("KeyError")
    ELSE Ok([i \in DOMAIN districts |-> districts[i].district_code])

\* calculate_transferable_far, in tenths of FAR
calculate_transferable_far(property_id) ==
    IF ~Exists(property_id) THEN Ok(0)
    ELSE LET property_obj == properties[property_id]
             property_geom == get_property_geometry(property_id)
         IN IF property_geom = None THEN Ok(0)
            ELSE LET zds == find_zoning_districts(property_geom)
                     far_analysis == calculate_far(property_id, zds, TRUE)
                     allowed_far == DictGet(far_analysis, "far_effective", 0)
                 IN IF property_obj.building_area_sf = None THEN Raise("TypeError")
                    ELSE IF property_obj.land_area_sf[1] = 0
                    THEN Raise("ZeroDivisionError")
                    ELSE LET current_far_used ==
                                 TrueDiv10(property_obj.building_area_sf[1],
                                           property_obj.land_area_sf[1])
                         IN Ok(Max(0, allowed_far - current_far_used))

\* find_air_rights_recipients: one candidate per adjacent property, its count
\* of entries is all the callers here use
find_air_rights_recipients(property_id) ==
    LET adjacent_ids == find_adjacent_properties(property_id)
        bad == {a \in adjacent_ids :
                  get_property_geometry(a) # None
                  /\ (properties[a].building_area_sf = None
                      \/ properties[a].land_area_sf[1] = 0)}
        potential(a) ==
            Max(0, DictGet(calculate_far(a, find_zoning_districts(
                                get_property_geometry(a)), TRUE),
                           "far_effective", 0)
                   - TrueDiv10(properties[a].building_area_sf[1],
                               properties[a].land_area_sf[1]))
    IN IF bad # {} THEN Raise("TypeError")
       ELSE Ok({a \in adjacent_ids :
                  get_property_geometry(a) # None /\ potential(a) > 0})

\* calculate_tdr_price, in quarter-dollars per square foot
calculate_tdr_price(property_id) ==
    IF ~Exists(property_id) THEN Ok(500)
    ELSE LET zds == find_zoning_districts(properties[property_id].geom)
             zone_codes == zone_codes_of(zds)
             premium_zones == {<<"C", "5">>, <<"C", "6">>, <<"M", "1">>, <<"M", "2">>}
         IN IF Raised(zone_codes) THEN zone_codes
            ELSE IF \E i \in DOMAIN zone_codes.val : \E prefix \in premium_zones :
                        StartsWith(zone_codes.val[i], prefix)
                 THEN Ok(975)     \* round(125.0 * 1.5 * 1.3, 2)
                 ELSE Ok(650)     \* round(125.0 * 1.3, 2)

\* analyze_air_rights.  unused_far and transferable_sf are in tenths,
\* transferable_far in hundredths (unused_far * 0.8), tdr_price_per_sf in
\* quarter-dollars, estimated_value in the product of these units.
analyze_air_rights(property_id) ==
    LET unused_far == calculate_transferable_far(property_id)
        recipients == find_air_rights_recipients(property_id)
        tdr_price_per_sf == calculate_tdr_price(property_id)
    IN IF Raised(unused_far) THEN unused_far
       ELSE IF Raised(recipients) THEN recipients
       ELSE IF Raised(tdr_price_per_sf) THEN tdr_price_per_sf
       ELSE LET transferable_sf ==
                    IF Exists(property_id)
                    THEN unused_far.val * properties[property_id].land_area_sf[1]
                    ELSE 0
            IN Ok([property_id |-> property_id,
                   unused_far |-> unused_far.val,
                   transferable_far |-> unused_far.val * 8,
                   transferable_sf |-> transferable_sf,
                   adjacent_properties |-> Cardinality(recipients.val),
                   tdr_price_per_sf |-> tdr_price_per_sf.val,
                   estimated_value |-> transferable_sf * tdr_price_per_sf.val])

\* simulate_air_rights_transfer.  far_to_transfer is in tenths; additional_sf,
\* new_buildable_sf are in tenths of the area unit.
simulate_air_rights_transfer(from_property_id, to_property_id, far_to_transfer) ==
    IF ~Exists(from_property_id) \/ ~Exists(to_property_id) THEN Raise("ValueError")
    ELSE LET from_property == properties[from_property_id]
             to_property == properties[to_property_id]
             available_far == calculate_transferable_far(from_property_id)
             tdr_price == calculate_tdr_price(from_property_id)
         IN IF Raised(available_far) THEN available_far
            ELSE IF far_to_transfer > available_far.val THEN Raise("ValueError")
            ELSE IF to_property.building_area_sf = None THEN Raise("TypeError")
            ELSE IF Raised(tdr_price) THEN tdr_price
            ELSE LET to_property_additional_area ==
                         far_to_transfer * to_property.land_area_sf[1]
                     to_property_new_area ==
                         10 * to_property.building_area_sf[1]
                         + to_property_additional_area
                 IN Ok([transfer_possible |-> TRUE,
                        far_transferred |-> far_to_transfer,
                        from_property |->
                            [id |-> from_property_id,
                             original_buildable_sf |-> from_property.building_area_sf,
                             remaining_buildable_sf |-> from_property.building_area_sf],
                        to_property |->
                            [id |-> to_property_id,
                             original_buildable_sf |-> to_property.building_area_sf,
                             new_buildable_sf |-> to_property_new_area,
                             additional_sf |-> to_property_additional_area],
                        transfer_value |->
                            far_to_transfer * from_property.land_area_sf[1]
                            * tdr_price.val,
                        tdr_price_per_sf |-> tdr_price.val])


-----------------------------------------------------------------------------
(* tax_incentive_service.py *)

\* any(use in current_use.lower() for use in commercial_uses), over the
\* current_use values of the model
IsCommercialUse(current_use) ==
    current_use \in {"Commercial", "Industrial", "Warehouse", "Manufacturing"}

\* A not-eligible result that keeps an abatement estimate
NotEligible_AbatementKept(code, name, reason) ==
    [program_code |-> code, program_name |-> name, is_eligible |-> FALSE,
     eligibility_reason |-> reason, estimated_abatement_value |-> 150000]

\* The dict every not-eligible return of the two programs builds
NotEligible(code, name, reason) ==
    [program_code |-> code, program_name |-> name, is_eligible |-> FALSE,
     eligibility_reason |-> reason, estimated_abatement_value |-> 0]

\* The zoning test of calculate_467m_eligibility:
\* any(code in eligible_zones for code in zone_codes)
eligible_zones_467m ==
    {<<"C", "4", "-", "7">>, C_C6_4, C_M1_1, <<"M", "1", "-", "2">>,
     <<"M", "2", "-", "1">>, <<"M", "2", "-", "2">>}

in_eligible_zone_467m(zone_codes) ==
    \E i \in DOMAIN zone_codes : zone_codes[i] \in eligible_zones_467m

\* The zoning test of calculate_icap_eligibility: any code that starts with
\* one of the prefixes
eligible_zones_icap ==
    {<<"M", "1">>, <<"M", "2">>, <<"M", "3">>, <<"C", "4">>, <<"C", "5">>,
     <<"C", "6">>, <<"C", "7">>, <<"C", "8">>}

in_eligible_zone_icap(zone_codes) ==
    \E i \in DOMAIN zone_codes : \E zone_prefix \in eligible_zones_icap :
        StartsWith(zone_codes[i], zone_prefix)

calculate_467m_eligibility(property_id) ==
    LET name == "Residential Conversion Tax Abatement"
    IN IF ~Exists(property_id)
       THEN Ok(NotEligible("467-M", name, "Property not found"))
       ELSE LET property_obj == properties[property_id]
                zds == find_zoning_districts(property_obj.geom)
                zone_codes == zone_codes_of(zds)
                building_age_years == 25
            IN IF Raised(zone_codes) THEN zone_codes
               ELSE IF ~in_eligible_zone_467m(zone_codes.val)
               THEN Ok(NotEligible("467-M", name, "Property not in eligible zone"))
               ELSE IF building_age_years < 20
               THEN Ok(NotEligible("467-M", name, "Building too young"))
               ELSE IF property_obj.building_area_sf = None THEN Raise("TypeError")
               ELSE \* int(area_sf * 500 * 0.012 * (0.85 * 10 + 0.75 * 15)), which
                    \* is area_sf * 118.5, for area_sf = 500 * building_area_sf
                    Ok([program_code |-> "467-M", program_name |-> name,
                        is_eligible |-> TRUE,
                        eligibility_reason |-> "Eligible zone",
                        estimated_abatement_value |->
                            IntOf(property_obj.building_area_sf[1] * 500 * 237, 2)])

calculate_icap_eligibility(property_id) ==
    LET name == "Industrial & Commercial Abatement Program"
    IN IF ~Exists(property_id)
       THEN Ok(NotEligible("ICAP", name, "Property not found"))
       ELSE LET property_obj == properties[property_id]
                zds == find_zoning_districts(property_obj.geom)
                zone_codes == zone_codes_of(zds)
            IN IF Raised(zone_codes) THEN zone_codes
               ELSE IF ~in_eligible_zone_icap(zone_codes.val)
               THEN Ok(NotEligible("ICAP", name,
                                   "Property not in eligible commercial/industrial zone"))
               ELSE IF property_obj.current_use = "None"
                       \/ ~IsCommercialUse(property_obj.current_use)
               THEN Ok(NotEligible("ICAP", name, "Property use not eligible"))
               ELSE \* int(land_sf * 300 * 0.012 * 0.25 * 15), which is
                    \* land_sf * 13.5, for land_sf = 500 * land_area_sf
                    Ok([program_code |-> "ICAP", program_name |-> name,
                        is_eligible |-> TRUE,
                        eligibility_reason |-> "Eligible commercial/industrial use",
                        estimated_abatement_value |->
                            IntOf(property_obj.land_area_sf[1] * 500 * 27, 2)])

check_tax_incentive_eligibility(property_id) ==
    LET r467m == calculate_467m_eligibility(property_id)
        ricap == calculate_icap_eligibility(property_id)
    IN IF Raised(r467m) THEN r467m
       ELSE IF Raised(ricap) THEN ricap
       ELSE Ok(<<r467m.val, ricap.val>>)

\* estimate_tax_abatement_value: the value of the first eligible result of the
\* program, 0 without one; an exception of the eligibility check propagates
estimate_tax_abatement_value(property_id, program_code) ==
    LET eligibility_results == check_tax_incentive_eligibility(property_id)
    IN IF Raised(eligibility_results) THEN eligibility_results
       ELSE LET hits == {i \in DOMAIN eligibility_results.val :
                           /\ eligibility_results.val[i].program_code = program_code
                           /\ eligibility_results.val[i].is_eligible}
            IN IF hits = {} THEN Ok(0)
               ELSE LET first == CHOOSE i \in hits : \A j \in hits : i <= j
                    IN Ok(DictGet(eligibility_results.val[first],
                                  "estimated_abatement_value", 0))

-----------------------------------------------------------------------------
(* utils/constants.py *)

\* eligible_zoning of TAX_INCENTIVE_PROGRAMS
TAX_INCENTIVE_PROGRAMS ==
    [program_code \in {"467-M", "ICAP", "421-A"} |->
        IF program_code = "467-M"
        THEN {<<"C", "4", "-", "7">>, C_C6_4, C_M1_1, <<"M", "1", "-", "2">>,
              <<"M", "2", "-", "1">>, <<"M", "2", "-", "2">>}
        ELSE IF program_code = "ICAP"
        THEN {<<"M", "1">>, <<"M", "2">>, <<"M", "3">>, <<"C", "4">>,
              <<"C", "5">>, <<"C", "6">>}
        ELSE {<<"R", "1">>, <<"R", "2">>, <<"R", "3">>, <<"R", "4">>,
              <<"R", "5">>, <<"R", "6">>}]

\* is_eligible_for_incentive: the code starts with an eligible_zoning entry
\* of the program (none for an unknown program)
is_eligible_for_incentive(district_code, program_code) ==
    LET eligible_zoning == IF program_code \in DOMAIN TAX_INCENTIVE_PROGRAMS
                           THEN TAX_INCENTIVE_PROGRAMS[program_code]
                           ELSE {}
    IN \E eligible \in eligible_zoning : StartsWith(district_code, eligible)

\* Zoning district codes of New York City
DistrictCodeInputs ==
    { C_R10, C_M1_1, C_C6_4, <<"C", "6", "-", "4", ".", "5">>,
      <<"C", "6", "-", "4", "A">>, <<"C", "4", "-", "7">>,
      <<"C", "4", "-", "6">>, <<"C", "5", "-", "3">>, <<"C", "6", "-", "2">>,
      <<"C", "7">>, <<"C", "8", "-", "1">>, <<"C", "1", "-", "9">>,
      <<"M", "1", "-", "2">>, <<"M", "1", "-", "5">>, <<"M", "2", "-", "1">>,
      <<"M", "2", "-", "2">>, <<"M", "3", "-", "1">>, <<"R", "6">>,
      <<"R", "8">> }

-----------------------------------------------------------------------------
(* zoning_service.py *)

\* analyze_property_zoning: every exception is swallowed into an error dict
analyze_property_zoning(property_id) ==
    LET geom == get_property_geometry(property_id)
    IN IF geom = None THEN [error |-> "Property geometry not found"]
       ELSE LET districts == find_zoning_districts(geom)
                far_analysis == calculate_far(property_id, districts, FALSE)
            IN [property_id |-> property_id,
                zoning_districts |-> districts,
                far_analysis |-> far_analysis,
                district_count |-> Len(districts)]

\* get_setback_requirements: per key the largest value over the districts, in
\* feet; every exception is swallowed into an error dict
get_setback_requirements(property_id) ==
    LET geom == get_property_geometry(property_id)
    IN IF geom = None THEN [error |-> "Property geometry not found"]
       ELSE LET districts == find_zoning_districts(geom)
                district_setbacks(i) == DictGet(districts[i], "setbacks", <<>>)
                keys == UNION {DOMAIN district_setbacks(i) : i \in DOMAIN districts}
                largest(key) ==
                    CHOOSE v \in {district_setbacks(i)[key] :
                                    i \in {j \in DOMAIN districts :
                                             key \in DOMAIN district_setbacks(j)}} :
                        \A i \in DOMAIN districts :
                            key \in DOMAIN district_setbacks(i)
                                => district_setbacks(i)[key] <= v
            IN IF \E i \in DOMAIN districts : "code" \notin DOMAIN districts[i]
               THEN [error |-> "'code'"]
               ELSE [property_id |-> property_id,
                     setbacks |-> [key \in keys |-> largest(key)],
                     zoning_districts |->
                         [i \in DOMAIN districts |-> districts[i].code],
                     units |-> "feet"]

\* validate_zoning_compliance.  districts_given is the zoning_districts
\* argument as the caller passes it:
\* [kind |-> "list", val |-> dicts], [kind |-> "int", val |-> n] or
\* [kind |-> "None"]; proposed_building_area_sf is None or a number in tenths
\* of the area unit.  Every exception is swallowed into an error dict: that of
\* districts[0] on a number inside calculate_far, that of comparing None, that
\* of len() of a number or of None.
validate_zoning_compliance(property_id, proposed_building_area_sf, districts_given) ==
    LET geom == get_property_geometry(property_id)
    IN IF geom = None
       THEN [compliant |-> FALSE, error |-> "Property geometry not found"]
       ELSE LET far_analysis ==
                    IF districts_given.kind = "list"
                    THEN calculate_far(property_id, districts_given.val, TRUE)
                    ELSE IF districts_given.kind = "int"
                            /\ districts_given.val # 0
                    THEN [far_effective |-> 0, error |-> "TypeError"]
                    ELSE calculate_far(property_id, <<>>, TRUE)
                lot_area_sf == DictGet(far_analysis, "lot_area_sf", 0)
                max_allowable_area ==
                    DictGet(far_analysis, "allowable_building_area_sf", 0)
            IN IF proposed_building_area_sf = None
               THEN [compliant |-> FALSE, error |-> "TypeError"]
               ELSE IF districts_given.kind # "list"
               THEN [compliant |-> FALSE, error |-> "TypeError"]
               ELSE LET is_compliant ==
                            proposed_building_area_sf[1] <= max_allowable_area
                    IN [compliant |-> is_compliant,
                        proposed_building_area_sf |-> proposed_building_area_sf[1],
                        max_allowable_area_sf |-> max_allowable_area,
                        lot_area_sf |-> lot_area_sf,
                        violations |->
                            IF is_compliant THEN <<>>
                            ELSE <<[type |-> "building_area_exceeds_far",
                                    severity |-> "major"]>>,
                        districts_checked |-> Len(districts_given.val)]

-----------------------------------------------------------------------------
(* property_service.py *)

get_property_full_analysis(property_id) ==
    IF ~Exists(property_id) THEN Raise("ValueError")
    ELSE LET property_obj == properties[property_id]
             zoning_analysis == analyze_property_zoning(property_id)
             tax_incentives == check_tax_incentive_eligibility(property_id)
             air_rights_analysis == analyze_air_rights(property_id)
             landmarks == find_nearby_landmarks(property_id, 150)
             centroid == get_property_centroid(property_id)
         IN IF Raised(tax_incentives) THEN tax_incentives
            ELSE IF Raised(air_rights_analysis) THEN air_rights_analysis
            ELSE Ok([property |->
                        [id |-> property_id,
                         address |-> property_obj.address,
                         building_area_sf |-> property_obj.building_area_sf,
                         land_area_sf |-> property_obj.land_area_sf,
                         current_use |-> IF property_obj.current_use = "None"
                                         THEN "Unknown" ELSE property_obj.current_use,
                         centroid |-> centroid],
                     zoning |-> zoning_analysis,
                     tax_incentives |-> tax_incentives.val,
                     air_rights |-> air_rights_analysis.val,
                     nearby_landmarks |-> landmarks])


\* _create_property_zoning_relationships: the rows it commits, or the
\* exception that ends it before its commit
create_property_zoning_relationships(property_id, zds) ==
    IF \E i \in DOMAIN zds :
          \/ "district_code" \notin DOMAIN zds[i]
          \/ /\ \E z \in zoning_districts : z.district_code = zds[i].district_code
             /\ "percent_in_district" \notin DOMAIN zds[i]
    THEN Raise("KeyError")
    ELSE Ok({[property_id |-> property_id,
              district_code |-> zds[i].district_code,
              percent_in_district |-> zds[i].percent_in_district] :
                i \in {j \in DOMAIN zds :
                         \E z \in zoning_districts :
                            z.district_code = zds[j].district_code}})

\* Keyword arguments _create_tax_incentive_records passes to PropertyTaxIncentive
TaxIncentiveRecordKwargs ==
    {"property_id", "tax_incentive_id", "is_eligible", "eligibility_reason",
     "estimated_abatement_value"}

\* _create_tax_incentive_records: the declarative constructor raises TypeError
\* on a keyword that is not a mapped attribute
create_tax_incentive_records(property_id, tax_eligibility) ==
    LET found == {i \in DOMAIN tax_eligibility :
                    tax_eligibility[i].program_code \in tax_incentive_programs}
    IN IF found # {} /\ ~(TaxIncentiveRecordKwargs \subseteq PropertyTaxIncentiveAttrs)
       THEN Raise("TypeError")
       ELSE Ok({[property_id |-> property_id,
                 program_code |-> tax_eligibility[i].program_code,
                 is_eligible |-> tax_eligibility[i].is_eligible,
                 estimated_abatement_value |->
                     tax_eligibility[i].estimated_abatement_value] : i \in found})

\* _create_air_rights_record
create_air_rights_record(property_id, air_rights_analysis) ==
    [property_id |-> property_id,
     unused_far |-> air_rights_analysis.unused_far,
     transferable_far |-> air_rights_analysis.transferable_far,
     tdr_price_per_sf |-> air_rights_analysis.tdr_price_per_sf]

\* The geometry create_property builds from the request
GeomOf(property_data) ==
    IF property_data.latitude = None \/ property_data.longitude = None
    THEN <<-740060, 407128>>
    ELSE <<property_data.longitude[1], property_data.latitude[1]>>

\* The initial analysis of create_property for the row just committed: its
\* helpers commit one after the other until one of them raises.  The
\* operators are read in the tables with the new row (primed).
InitialAnalysis(id, geom) ==
    LET zds == find_zoning_districts(geom)'
        pz == create_property_zoning_relationships(id, zds)
        tax_eligibility == check_tax_incentive_eligibility(id)'
        pti == IF Raised(tax_eligibility) THEN tax_eligibility
               ELSE create_tax_incentive_records(id, tax_eligibility.val)
        air_rights_analysis == analyze_air_rights(id)'
        zoning_done == ~Raised(pz)
        tax_done == zoning_done /\ ~Raised(pti)
        air_done == tax_done /\ ~Raised(air_rights_analysis)
    IN [property_zoning |-> IF zoning_done THEN pz.val ELSE {},
        property_tax_incentives |-> IF tax_done THEN pti.val ELSE {},
        air_rights |-> IF air_done
                       THEN {create_air_rights_record(id, air_rights_analysis.val)}
                       ELSE {},
        error |-> IF ~zoning_done THEN pz.exc
                  ELSE IF ~tax_done THEN pti.exc
                  ELSE IF ~air_done THEN air_rights_analysis.exc
                  ELSE "none"]

\* The id create_property gives the new row: it stands for the fresh uuid4 of
\* the row, the first unused name (none is left when the bound is reached)
NewIds == {i \in PropIds \ DOMAIN properties :
             \A j \in PropIds \ DOMAIN properties : i <= j}

\* What create_property writes for a request with a land area: the row, then
\* the records of the initial analysis
InsertProperty(property_data, id) ==
    LET geom == GeomOf(property_data)
        property_obj == [address |-> property_data.address,
                         building_area_sf |-> property_data.building_area_sf,
                         land_area_sf |-> property_data.land_area_sf,
                         lot_number |-> "None",
                         block_number |-> "None",
                         zip_code |-> "None",
                         current_use |-> "None",
                         geom |-> geom]
    IN /\ properties' = [p \in DOMAIN properties \cup {id} |->
                            IF p = id THEN property_obj ELSE properties[p]]
       /\ UNCHANGED <<is_postgresql, zoning_districts, tax_incentive_programs>>
       /\ property_zoning' =
              property_zoning \cup InitialAnalysis(id, geom).property_zoning
       /\ property_tax_incentives' =
              property_tax_incentives
                  \cup InitialAnalysis(id, geom).property_tax_incentives
       /\ air_rights' = air_rights \cup InitialAnalysis(id, geom).air_rights

\* create_property without the try/except around the initial analysis: the
\* exception of a failed step leaves the function
CreateProperty_AnalysisRaises(property_data) ==
    IF property_data.land_area_sf = None
    THEN /\ last' = [op |-> "create_property", args |-> property_data,
                     result |-> Raise("IntegrityError")]
         /\ UNCHANGED <<process_vars, is_postgresql, tables>>
    ELSE \E id \in NewIds :
         /\ InsertProperty(property_data, id)
         /\ last' = [op |-> "create_property", args |-> property_data,
                     result |->
                         IF InitialAnalysis(id, GeomOf(property_data)).error
                                = "none"
                         THEN Ok(id)
                         ELSE Raise(InitialAnalysis(
                                        id, GeomOf(property_data)).error),
                     analysis_error |->
                         InitialAnalysis(id, GeomOf(property_data)).error]
         /\ UNCHANGED process_vars

\* create_property: insert and commit the row, then the initial analysis
CreateProperty(property_data) ==
    IF property_data.land_area_sf = None
    THEN \* NOT NULL constraint of properties.land_area_sf fails the commit
         /\ last' = [op |-> "create_property", args |-> property_data,
                     result |-> Raise("IntegrityError")]
         /\ UNCHANGED <<process_vars, is_postgresql, tables>>
    ELSE \E id \in NewIds :
         /\ InsertProperty(property_data, id)
         /\ last' = [op |-> "create_property", args |-> property_data,
                     result |-> Ok(id),
                     analysis_error |->
                         InitialAnalysis(id, GeomOf(property_data)).error]
         /\ UNCHANGED process_vars

\* update_data dicts given to update_property
UpdateInputs ==
    { [land_area_sf |-> Some(-50)], [land_area_sf |-> Some(50)],
      [land_area_sf |-> None], [building_area_sf |-> None],
      [lot_number |-> "17"] }

\* update_property without the allowed_fields test: every key of update_data
\* that names a column is set
UpdateProperty_AllFields(property_id, update_data) ==
    IF ~Exists(property_id)
    THEN /\ last' = [op |-> "update_property", args |-> <<property_id, update_data>>,
                     result |-> Ok("None")]
         /\ UNCHANGED <<process_vars, is_postgresql, tables>>
    ELSE LET property_obj ==
                 [f \in DOMAIN properties[property_id] |->
                     IF f \in DOMAIN update_data
                     THEN update_data[f] ELSE properties[property_id][f]]
         IN IF property_obj.land_area_sf = None
            THEN /\ last' = [op |-> "update_property",
                             args |-> <<property_id, update_data>>,
                             result |-> Raise("IntegrityError")]
                 /\ UNCHANGED <<process_vars, is_postgresql, tables>>
            ELSE /\ properties' = [properties EXCEPT ![property_id] = property_obj]
                 /\ last' = [op |-> "update_property",
                             args |-> <<property_id, update_data>>,
                             result |-> Ok(property_id)]
                 /\ UNCHANGED <<process_vars, is_postgresql, zoning_districts,
                                tax_incentive_programs, property_zoning,
                                property_tax_incentives, air_rights>>

\* update_property: setattr of the allowed fields present, then commit
UpdateProperty(property_id, update_data) ==
    LET allowed_fields == {"address", "zip_code", "building_area_sf",
                           "land_area_sf", "current_use"}
    IN IF ~Exists(property_id)
       THEN /\ last' = [op |-> "update_property", args |-> <<property_id, update_data>>,
                        result |-> Ok("None")]
            /\ UNCHANGED <<process_vars, is_postgresql, tables>>
       ELSE LET property_obj ==
                    [f \in DOMAIN properties[property_id] |->
                        IF f \in DOMAIN update_data /\ f \in allowed_fields
                        THEN update_data[f] ELSE properties[property_id][f]]
            IN IF property_obj.land_area_sf = None
               THEN /\ last' = [op |-> "update_property",
                                args |-> <<property_id, update_data>>,
                                result |-> Raise("IntegrityError")]
                    /\ UNCHANGED <<process_vars, is_postgresql, tables>>
               ELSE /\ properties' = [properties EXCEPT ![property_id] = property_obj]
                    /\ last' = [op |-> "update_property",
                                args |-> <<property_id, update_data>>,
                                result |-> Ok(property_id)]
                    /\ UNCHANGED <<process_vars, is_postgresql, zoning_districts,
                                   tax_incentive_programs, property_zoning,
                                   property_tax_incentives, air_rights>>

\* Child rows of a property in the three tables that reference properties.id
ChildRows(property_id) ==
    {r \in property_zoning \cup property_tax_incentives \cup air_rights :
        r.property_id = property_id}

\* DeleteProperty with the cascade lost: only the properties row goes
DeleteProperty_NoCascade(property_id) ==
    /\ Exists(property_id)
    /\ properties' = [p \in DOMAIN properties \ {property_id} |-> properties[p]]
    /\ last' = [op |-> "delete_property", args |-> property_id,
                result |-> Ok("None"),
                cascaded |-> Cardinality(ChildRows(property_id))]
    /\ UNCHANGED <<process_vars, is_postgresql, zoning_districts, tax_incentive_programs,
                   property_zoning, property_tax_incentives, air_rights>>

\* Deleting a Property through the session: the relationships zoning_districts,
\* tax_incentives and air_rights cascade "all, delete-orphan", and the foreign
\* keys are ON DELETE CASCADE.  cascaded counts the child rows deleted with it.
DeleteProperty(property_id) ==
    /\ Exists(property_id)
    /\ properties' = [p \in DOMAIN properties \ {property_id} |-> properties[p]]
    /\ property_zoning' = {r \in property_zoning : r.property_id # property_id}
    /\ property_tax_incentives' =
           {r \in property_tax_incentives : r.property_id # property_id}
    /\ air_rights' = {r \in air_rights : r.property_id # property_id}
    /\ last' = [op |-> "delete_property", args |-> property_id,
                result |-> Ok("None"),
                cascaded |-> Cardinality(ChildRows(property_id))]
    /\ UNCHANGED <<process_vars, is_postgresql, zoning_districts, tax_incentive_programs>>

-----------------------------------------------------------------------------
(* Read-only service calls: the outcome is recorded, no table changes *)

Call(op, args, result) ==
    /\ last' = [op |-> op, args |-> args, result |-> result]
    /\ UNCHANGED <<process_vars, is_postgresql, tables>>

\* District lists handed to calculate_far
DistrictListInputs ==
    { <<>>, <<MockDistrict>>,
      <<[code |-> C_M1_1, base_far |-> 20, max_far |-> 30,
         setbacks |-> [front_ft |-> 0, side_ft |-> 0, rear_ft |-> 10]],
        MockDistrict>> }

\* far_to_transfer values of a simulation request, in tenths
FarInputs == {-10, 0, 10}

GetPropertyFullAnalysis(property_id) ==
    Call("get_property_full_analysis", property_id,
         get_property_full_analysis(property_id))

CalculateFar(property_id, districts, use_max_far) ==
    Call("calculate_far", <<property_id, districts, use_max_far>>,
         Ok(calculate_far(property_id, districts, use_max_far)))

CalculateTransferableFar(property_id) ==
    Call("calculate_transferable_far", property_id,
         calculate_transferable_far(property_id))

AnalyzeAirRights(property_id) ==
    Call("analyze_air_rights", property_id, analyze_air_rights(property_id))

SimulateAirRightsTransfer(from_property_id, to_property_id, far_to_transfer) ==
    Call("simulate_air_rights_transfer",
         <<from_property_id, to_property_id, far_to_transfer>>,
         simulate_air_rights_transfer(from_property_id, to_property_id,
                                      far_to_transfer))

Calculate467mEligibility(property_id) ==
    Call("calculate_467m_eligibility", property_id,
         calculate_467m_eligibility(property_id))

CalculateIcapEligibility(property_id) ==
    Call("calculate_icap_eligibility", property_id,
         calculate_icap_eligibility(property_id))

CheckTaxIncentiveEligibility(property_id) ==
    Call("check_tax_incentive_eligibility", property_id,
         check_tax_incentive_eligibility(property_id))

\* Program codes asked of estimate_tax_abatement_value
ProgramCodeInputs == {"467-M", "ICAP", "NONEXISTENT"}

EstimateTaxAbatementValue(property_id, program_code) ==
    Call("estimate_tax_abatement_value", <<property_id, program_code>>,
         estimate_tax_abatement_value(property_id, program_code))

GetSetbackRequirements(property_id) ==
    Call("get_setback_requirements", property_id,
         Ok(get_setback_requirements(property_id)))

\* Proposed building areas, in tenths of the area unit: 50000 and 5000000
\* square feet
ProposedAreaInputs == {1000, 100000}

\* The zoning test of the eligibility engine and that of the program table,
\* for one district code
ZoningTest(district_code, program_code) ==
    Call("zoning_test", <<district_code, program_code>>,
         Ok([engine |-> IF program_code = "467-M"
                        THEN in_eligible_zone_467m(<<district_code>>)
                        ELSE in_eligible_zone_icap(<<district_code>>),
             table |-> is_eligible_for_incentive(district_code, program_code)]))

ValidateZoningCompliance(property_id, proposed_building_area_sf, districts) ==
    Call("validate_zoning_compliance",
         <<property_id, proposed_building_area_sf, districts>>,
         Ok(validate_zoning_compliance(property_id,
                                       Some(proposed_building_area_sf),
                                       [kind |-> "list", val |-> districts])))

\* Points given to find_zoning_districts: POINT(-74.0060 40.7128) and
\* POINT(-74.0121 40.7074)
GeomInputs == {<<-740060, 407128>>, <<-740121, 407074>>}

FindZoningDistricts(geom) ==
    Call("find_zoning_districts", geom, Ok(find_zoning_districts(geom)))

GetPropertyCentroid(property_id) ==
    Call("get_property_centroid", property_id,
         Ok(get_property_centroid(property_id)))

GetZoningSummary(property_id) ==
    Call("get_zoning_summary", property_id,
         Ok(get_zoning_summary(property_id)))

-----------------------------------------------------------------------------
(* main.py and the handlers of app/api *)

\* Texts str(e) of an exception raised under a handler; the text is made by
\* the library that raises (a driver error quotes the statement and its
\* parameters), two of them stand for all
ExceptionTexts == {"a text", "a text about the database"}

\* str.strip over the addresses of the model
Strip(address) == IF address \in {"", "   "} THEN "" ELSE address

\* http_exception_handler: the status of the HTTPException, its detail as the
\* message of the body
http_exception_handler(status_code, detail) ==
    [status_code |-> status_code,
     body |-> [error |-> <<"HTTP_", status_code>>, message |-> detail,
               code |-> <<"HTTP_", status_code>>]]

\* validation_exception_handler: the answer to a request FastAPI rejects
validation_exception_handler ==
    [status_code |-> 422,
     body |-> [error |-> "VALIDATION_ERROR",
               message |-> "Please check your input data and try again.",
               code |-> "VALIDATION_ERROR"]]

\* Exception classes an exception class derives from (itself included), as far
\* as global_exception_handler tells them apart
Bases(exc) ==
    {exc} \cup
    ( IF exc \in {"ConnectionError", "TimeoutError", "PermissionError",
                  "FileNotFoundError"}
      THEN {"OSError"}
      ELSE IF exc = "ConnectionRefusedError"
      THEN {"ConnectionError", "OSError"}
      ELSE IF exc = "ValidationError" THEN {"ValueError"}
      ELSE {} )

\* "database" in str(exc).lower(), over the texts of the model
MentionsDatabase(text) == text = "a text about the database"

\* global_exception_handler: the answer to an exception no handler caught.
\* The traceback of the development details quotes the text of the exception.
global_exception_handler(exc, text, is_development) ==
    LET classified ==
            IF "ValueError" \in Bases(exc)
            THEN [status_code |-> 400, error_code |-> "VALIDATION_ERROR",
                  user_message |-> "Invalid input data provided."]
            ELSE IF "PermissionError" \in Bases(exc) \/ "OSError" \in Bases(exc)
            THEN [status_code |-> 403, error_code |-> "PERMISSION_DENIED",
                  user_message |-> "Access denied to requested resource."]
            ELSE IF "ConnectionError" \in Bases(exc) \/ MentionsDatabase(text)
            THEN [status_code |-> 503, error_code |-> "SERVICE_UNAVAILABLE",
                  user_message |->
                      "Service temporarily unavailable. Please try again."]
            ELSE IF "TimeoutError" \in Bases(exc)
            THEN [status_code |-> 504, error_code |-> "TIMEOUT_ERROR",
                  user_message |-> "Request timed out. Please try again."]
            ELSE [status_code |-> 500, error_code |-> "INTERNAL_ERROR",
                  user_message |->
                      "An unexpected error occurred. Please try again later."]
    IN [status_code |-> classified.status_code,
        body |-> [error |-> classified.error_code,
                  message |-> classified.user_message,
                  details |-> IF is_development THEN <<"traceback", text>>
                              ELSE None,
                  code |-> classified.error_code]]

\* The response to an exception raised under a handler: analyze_property,
\* check_zoning_compliance and get_nearby_landmarks catch it and raise
\* HTTPException(500) with str(e) in the detail; get_property catches nothing
handler_error(op, exc, text, is_development) ==
    IF op = "analyze_property"
    THEN http_exception_handler(500, <<"Error analyzing property: ", text>>)
    ELSE IF op = "check_zoning_compliance"
    THEN http_exception_handler(
             500, <<"Error checking zoning compliance: ", text>>)
    ELSE IF op = "get_nearby_landmarks"
    THEN http_exception_handler(500, <<"Error finding nearby landmarks: ", text>>)
    ELSE IF op = "far_calculator"
    THEN http_exception_handler(500, <<"Error calculating FAR: ", text>>)
    ELSE IF op = "simulate_transfer"
    THEN http_exception_handler(
             500, <<"Error simulating air rights transfer: ", text>>)
    ELSE global_exception_handler(exc, text, is_development)

\* A handler answered: the call, the response, the class of the exception
\* raised under the handler ("none" without one) and settings.is_development
\* (FALSE where no code of the request reads it)
Respond(op, args, response, exc, is_development) ==
    last' = [op |-> op, args |-> args, result |-> response, exc |-> exc,
             is_development |-> is_development]

\* Whether the body of a request passes PropertyCreate: the address is at
\* least one character long and not blank; latitude, longitude and the areas
\* are Optional[float] without bounds
ValidPropertyCreate(request) ==
    /\ request.address # ""
    /\ Strip(request.address) # ""

\* Bodies of POST /api/properties/analyze: those of PropertyCreateInputs, a
\* latitude of 91 degrees (910000), a longitude of 181 degrees (1810000), a
\* blank address
AnalyzeRequestInputs ==
    PropertyCreateInputs \cup
    { [address |-> "123 Broadway", latitude |-> Some(910000),
       longitude |-> Some(-740060),
       building_area_sf |-> None, land_area_sf |-> Some(50)],
      [address |-> "123 Broadway", latitude |-> Some(407128),
       longitude |-> Some(1810000),
       building_area_sf |-> None, land_area_sf |-> Some(50)],
      [address |-> "   ", latitude |-> None, longitude |-> None,
       building_area_sf |-> None, land_area_sf |-> Some(50)] }

\* analyze_property: create_property, then get_property_full_analysis of the
\* new row; every exception becomes HTTPException(500) with str(e) in its
\* detail, the row create_property committed stays
AnalyzeProperty(request, text) ==
    LET property_data == [request EXCEPT !.address = Strip(request.address)]
        failed(exc) == handler_error("analyze_property", exc, text, FALSE)
    IN IF ~ValidPropertyCreate(request)
       THEN /\ Respond("analyze_property", request,
                       validation_exception_handler, "RequestValidationError", FALSE)
            /\ UNCHANGED <<is_postgresql, tables>>
       ELSE IF property_data.land_area_sf = None
       THEN /\ Respond("analyze_property", request, failed("IntegrityError"),
                       "IntegrityError", FALSE)
            /\ UNCHANGED <<is_postgresql, tables>>
       ELSE \E id \in NewIds :
            /\ InsertProperty(property_data, id)
            /\ LET analysis == get_property_full_analysis(id)'
               IN IF Raised(analysis)
                  THEN Respond("analyze_property", request,
                               failed(analysis.exc), analysis.exc, FALSE)
                  ELSE Respond("analyze_property", request,
                               [status_code |-> 200, body |-> analysis.val],
                               "none", FALSE)

\* Required fields of the response models
ZoningComplianceResponseRequired ==
    {"property_id", "zoning_district", "is_compliant"}

NearbyLandmarksResponseRequired ==
    {"property_latitude", "property_longitude", "search_radius_ft", "total_count"}

\* get_property: 404 without the row; with it PropertyResponse.from_orm, whose
\* super().from_attributes is no attribute of BaseModel, and no handler
\* catches the AttributeError
GetProperty(property_id, text, is_development) ==
    /\ IF ~Exists(property_id)
       THEN Respond("get_property", property_id,
                    http_exception_handler(404, <<"Property not found">>),
                    "HTTPException", FALSE)
       ELSE Respond("get_property", property_id,
                    handler_error("get_property", "AttributeError", text,
                                  is_development),
                    "AttributeError", is_development)
    /\ UNCHANGED <<is_postgresql, tables>>

\* get_nearby_landmarks: 404 without the row; with it the landmarks found go
\* into NearbyLandmarksResponse with the keywords property_id, landmarks and
\* search_radius_ft
GetNearbyLandmarks(property_id, text) ==
    /\ IF ~Exists(property_id)
       THEN Respond("get_nearby_landmarks", property_id,
                    http_exception_handler(404, <<"Property not found">>),
                    "HTTPException", FALSE)
       ELSE LET landmarks == find_nearby_landmarks(property_id, 150)
                keywords == {"property_id", "landmarks", "search_radius_ft"}
            IN IF NearbyLandmarksResponseRequired \subseteq keywords
               THEN Respond("get_nearby_landmarks", property_id,
                            [status_code |-> 200,
                             body |-> [landmarks |-> landmarks]], "none", FALSE)
               ELSE Respond("get_nearby_landmarks", property_id,
                            handler_error("get_nearby_landmarks",
                                          "ValidationError", text, FALSE),
                            "ValidationError", FALSE)
    /\ UNCHANGED <<is_postgresql, tables>>

\* Query parameters of the compliance check: proposed_far in tenths,
\* proposed_height in feet, both optional
ProposedFarInputs == {None, Some(10)}

ProposedHeightInputs == {None, Some(100)}

\* check_zoning_compliance: validate_zoning_compliance is given proposed_far
\* as the proposed area and proposed_height as the districts, and its dict
\* goes into ZoningComplianceResponse
CheckZoningCompliance(property_id, proposed_far, proposed_height, text) ==
    LET compliance ==
            validate_zoning_compliance(
                property_id, proposed_far,
                IF proposed_height = None THEN [kind |-> "None"]
                ELSE [kind |-> "int", val |-> proposed_height[1]])
        args == <<property_id, proposed_far, proposed_height>>
    IN /\ IF ZoningComplianceResponseRequired \subseteq DOMAIN compliance
          THEN Respond("check_zoning_compliance", args,
                       [status_code |-> 200, body |-> compliance], "none", FALSE)
          ELSE Respond("check_zoning_compliance", args,
                       handler_error("check_zoning_compliance",
                                     "ValidationError", text, FALSE),
                       "ValidationError", FALSE)
       /\ UNCHANGED <<is_postgresql, tables>>

\* Fields of FARCalculatorRequest, the required ones among them, and the
\* required fields of FARCalculatorResponse
FARCalculatorRequestFields ==
    {"zoning_district", "lot_area_sf", "existing_building_area_sf"}

FARCalculatorRequestRequired == {"zoning_district", "lot_area_sf"}

FARCalculatorResponseRequired ==
    {"zoning_district", "base_far", "maximum_far",
     "allowable_building_area_sf", "lot_area_sf", "calculations"}

\* Bodies posted to the FAR calculator: lot_area_sf in units of 100 square
\* feet; a key the request model does not declare is ignored
FarCalculatorInputs ==
    { [lot_area_sf |-> -1, zoning_codes |-> <<>>],
      [zoning_district |-> C_R10, lot_area_sf |-> -1],
      [zoning_district |-> C_R10, lot_area_sf |-> -1, zoning_codes |-> <<>>],
      [zoning_district |-> C_R10, lot_area_sf |-> 100],
      [zoning_district |-> C_R10] }

\* calculate_far of api/zoning.py: a body without a required field is
\* rejected; the handler then reads request.zoning_codes and
\* request.include_bonuses, which FARCalculatorRequest does not declare, and
\* builds FARCalculatorResponse from far and buildable_sf alone; every
\* exception becomes HTTPException(500) with str(e) in its detail
FarCalculator(request, text) ==
    /\ IF ~(FARCalculatorRequestRequired \subseteq DOMAIN request)
       THEN Respond("far_calculator", request, validation_exception_handler,
                    "RequestValidationError", FALSE)
       ELSE IF ~({"zoning_codes", "include_bonuses"}
                     \subseteq FARCalculatorRequestFields)
       THEN Respond("far_calculator", request,
                    handler_error("far_calculator", "AttributeError", text,
                                  FALSE),
                    "AttributeError", FALSE)
       ELSE IF ~(FARCalculatorResponseRequired \subseteq {"far", "buildable_sf"})
       THEN Respond("far_calculator", request,
                    handler_error("far_calculator", "ValidationError", text,
                                  FALSE),
                    "ValidationError", FALSE)
       ELSE Respond("far_calculator", request,
                    [status_code |-> 200,
                     body |-> [far |-> 20, buildable_sf |-> 0]], "none", FALSE)
    /\ UNCHANGED <<is_postgresql, tables>>

\* simulate_air_rights_transfer of api/air_rights.py: the dict of the service;
\* ValueError becomes HTTPException(400) with str(e) as its detail, any other
\* exception HTTPException(500)
SimulateTransfer(from_property_id, to_property_id, far_to_transfer, text) ==
    LET simulation == simulate_air_rights_transfer(
                          from_property_id, to_property_id, far_to_transfer)
        args == <<from_property_id, to_property_id, far_to_transfer>>
    IN /\ IF ~Raised(simulation)
          THEN Respond("simulate_transfer", args,
                       [status_code |-> 200, body |-> simulation.val],
                       "none", FALSE)
          ELSE IF simulation.exc = "ValueError"
          THEN Respond("simulate_transfer", args,
                       http_exception_handler(400, <<text>>), "ValueError",
                       FALSE)
          ELSE Respond("simulate_transfer", args,
                       handler_error("simulate_transfer", simulation.exc, text,
                                     FALSE),
                       simulation.exc, FALSE)
       /\ UNCHANGED <<is_postgresql, tables>>

\* Classes of the exceptions that reach global_exception_handler
ExceptionClasses ==
    {"ValueError", "ValidationError", "PermissionError", "OSError",
     "FileNotFoundError", "ConnectionError", "ConnectionRefusedError",
     "TimeoutError", "AttributeError", "KeyError", "TypeError",
     "RuntimeError"}

\* An exception no handler caught reaches global_exception_handler
UncaughtException(exc, text, is_development) ==
    /\ Respond("global_exception_handler", <<exc, text>>,
               global_exception_handler(exc, text, is_development), exc,
               is_development)
    /\ UNCHANGED <<is_postgresql, tables>>

\* The largest number of rows in the databases a search starts from
MaxSearchRows == 11

\* Rows in the order of ORDER BY p.id
RECURSIVE OrderById(_)
OrderById(ids) ==
    IF ids = {} THEN <<>>
    ELSE LET first == CHOOSE i \in ids : \A j \in ids : i <= j
         IN <<first>> \o OrderById(ids \ {first})

\* search_properties_by_address: nothing without rows; else the rows with a
\* geometry in the order of their ids, LIMIT min(50, total_count), each with
\* the coordinates of its point (a coordinate of 0 reads as None on
\* PostgreSQL).  The address is not used.
search_properties_by_address(address) ==
    LET total_count == Cardinality(DOMAIN properties)
        limit == IF 50 <= total_count THEN 50 ELSE total_count
        rows == OrderById({p \in DOMAIN properties : properties[p].geom # None})
        result == SubSeq(rows, 1, IF limit <= Len(rows) THEN limit ELSE Len(rows))
        PropertyWithCoords(p) ==
            [id |-> p,
             address |-> properties[p].address,
             latitude |-> IF is_postgresql /\ properties[p].geom[2] = 0
                          THEN None ELSE Some(properties[p].geom[2]),
             longitude |-> IF is_postgresql /\ properties[p].geom[1] = 0
                           THEN None ELSE Some(properties[p].geom[1])]
    IN IF total_count = 0 THEN <<>>
       ELSE [i \in 1..Len(result) |-> PropertyWithCoords(result[i])]

\* PropertyResponse.from_orm: its first statement calls
\* super().from_attributes(obj), and BaseModel has no such attribute
from_orm(obj) == Raise("AttributeError")

\* Addresses and state codes of search requests
SearchAddressInputs == {"", "   ", "123 Broadway"}

SearchStateInputs == {"NY", "ny", "NJ"}

\* str.upper over the state codes of the model
Upper(state) == IF state = "ny" THEN "NY" ELSE state

SearchPropertiesByAddress(address) ==
    Call("search_properties_by_address", address,
         Ok(search_properties_by_address(address)))

\* search_properties: Query(min_length=1) rejects the empty address; a blank
\* address or a state other than NY raises HTTPException(400) whose detail is
\* a dict, so that ErrorResponse(message=exc.detail) raises ValidationError in
\* http_exception_handler and global_exception_handler answers; else the
\* rows found are converted with PropertyResponse.from_orm one by one, and a
\* row whose conversion raises is skipped: each one raises AttributeError
SearchProperties(address, state, text, is_development) ==
    /\ IF address = ""
       THEN Respond("search_properties", <<address, state>>,
                    validation_exception_handler, "RequestValidationError",
                    FALSE)
       ELSE IF Strip(address) = "" \/ Upper(state) # "NY"
       THEN Respond("search_properties", <<address, state>>,
                    global_exception_handler("ValidationError", text,
                                             is_development),
                    "ValidationError", is_development)
       ELSE LET found == search_properties_by_address(Strip(address))
                results == SelectSeq(found, LAMBDA prop : ~Raised(from_orm(prop)))
            IN Respond("search_properties", <<address, state>>,
                       [status_code |-> 200, body |-> results], "none", FALSE)
    /\ UNCHANGED <<is_postgresql, tables>>

-----------------------------------------------------------------------------
(* database.py: get_db around the handler of a request *)

\* Requests in flight at the same time
MaxRequests == 2

Requests == 1..MaxRequests

\* A request whose dependency get_db has not been called yet
NoRequest == [pc |-> "waiting", db |-> None, raised |-> FALSE]

\* get_db up to its yield: SessionLocal() makes a session for this call alone,
\* and the yield hands it to the request
GetDbOpen(r) ==
    /\ requests[r].pc = "waiting"
    /\ db_sessions' = Append(db_sessions, [closed |-> FALSE])
    /\ requests' = [requests EXCEPT ![r] = [pc |-> "handler",
                                            db |-> Some(Len(db_sessions) + 1),
                                            raised |-> FALSE]]
    /\ UNCHANGED <<is_postgresql, tables, last, geocoding>>

\* The request runs with its session: here the handlers that read only,
\* search_properties and get_property, under production settings.  It ends
\* with a return value or with an exception, which FastAPI raises in get_db
\* at the yield.
Handle(r) ==
    /\ requests[r].pc = "handler"
    /\ \/ \E address \in SearchAddressInputs, state \in SearchStateInputs,
             text \in ExceptionTexts :
             SearchProperties(address, state, text, FALSE)
       \/ \E property_id \in PropIds, text \in ExceptionTexts :
             GetProperty(property_id, text, FALSE)
    /\ requests' = [requests EXCEPT ![r].pc = "finally",
                                    ![r].raised = (last'.exc # "none")]
    /\ UNCHANGED <<db_sessions, geocoding>>

\* get_db without try/finally: an exception raised at the yield leaves the
\* generator before db.close()
GetDbClose_NoFinally(r) ==
    /\ requests[r].pc = "finally"
    /\ db_sessions' = IF requests[r].raised THEN db_sessions
                      ELSE [db_sessions EXCEPT ![requests[r].db[1]].closed = TRUE]
    /\ requests' = [requests EXCEPT ![r].pc = "done"]
    /\ UNCHANGED <<is_postgresql, tables, last, geocoding>>

\* get_db after its yield: the finally clause closes the session, whether the
\* generator was resumed or an exception was raised in it
GetDbClose(r) ==
    /\ requests[r].pc = "finally"
    /\ db_sessions' = [db_sessions EXCEPT ![requests[r].db[1]].closed = TRUE]
    /\ requests' = [requests EXCEPT ![r].pc = "done"]
    /\ UNCHANGED <<is_postgresql, tables, last, geocoding>>

-----------------------------------------------------------------------------
(* utils/geocoding.py: GeocodingService.geocode_address *)

\* (longitude, latitude) of the final fallback
nyc_center == <<-740060, 407128>>

\* No call of geocode_address has been made
NoCall ==
    [pc |-> "idle", address |-> "None", mapbox_token |-> FALSE,
     openai_key |-> FALSE, called |-> <<>>, result |-> None]

\* What the GET of _geocode_with_mapbox ends with: a response with its status
\* and features, or the exception of the client (timeout=10)
MapboxResponses ==
    { [error |-> "none", status_code |-> 200,
       features |-> <<[coordinates |-> <<-739857, 407484>>]>>],
      [error |-> "none", status_code |-> 200,
       features |-> <<[coordinates |-> <<-740121, 407074>>],
                      [coordinates |-> <<-739857, 407484>>]>>],
      [error |-> "none", status_code |-> 200,
       features |-> <<[coordinates |-> <<-770365, 388977>>]>>],
      [error |-> "none", status_code |-> 200, features |-> <<>>],
      [error |-> "none", status_code |-> 401, features |-> <<>>],
      [error |-> "TimeoutException", status_code |-> 0, features |-> <<>>],
      [error |-> "ConnectError", status_code |-> 0, features |-> <<>>] }

\* _geocode_with_mapbox after its GET: raise_for_status, the first feature,
\* the NYC bounds 40.5 <= lat <= 40.9 and -74.3 <= lon <= -73.7
geocode_with_mapbox(response) ==
    IF response.error # "none" THEN Raise(response.error)
    ELSE IF response.status_code >= 400 THEN Raise("HTTPStatusError")
    ELSE IF response.features = <<>> THEN Raise("GeocodingError")
    ELSE LET coordinates == response.features[1].coordinates
             lon == coordinates[1]
             lat == coordinates[2]
         IN IF ~(405000 <= lat /\ lat <= 409000
                 /\ -743000 <= lon /\ lon <= -737000)
            THEN Raise("GeocodingError")
            ELSE Ok(<<lon, lat>>)

\* _geocode_with_openai: not implemented, it raises at once
geocode_with_openai == Raise("GeocodingError")

\* geocode_address from the OpenAI fallback on: the provider is tried with a
\* key, its exception is caught, and the NYC centre is returned
GeocodeFallback(call, called) ==
    [call EXCEPT !.pc = "returned",
                 !.called =
                     IF call.openai_key
                     THEN Append(called, [provider |-> "openai",
                                          outcome |-> geocode_with_openai])
                     ELSE called,
                 !.result =
                     IF call.openai_key /\ ~Raised(geocode_with_openai)
                     THEN Some(geocode_with_openai.val)
                     ELSE Some(nyc_center)]

\* Addresses to geocode
GeocodeAddressInputs ==
    {"123 Broadway", "456 Park Avenue", "789 Flatbush Avenue"}

\* geocode_address up to its first await: with a Mapbox token the GET is
\* sent; without one the rest of the function runs
GeocodeAddress(address, mapbox_token, openai_key) ==
    /\ geocoding.pc \in {"idle", "returned"}
    /\ LET call == [pc |-> "mapbox", address |-> address,
                    mapbox_token |-> mapbox_token, openai_key |-> openai_key,
                    called |-> <<>>, result |-> None]
       IN geocoding' = IF mapbox_token THEN call
                       ELSE GeocodeFallback(call, <<>>)
    /\ UNCHANGED <<session_vars, is_postgresql, tables, last>>

\* geocode_address without the try around the Mapbox call: its exception
\* leaves the function
MapboxResponds_Raises(response) ==
    /\ geocoding.pc = "mapbox"
    /\ LET coords == geocode_with_mapbox(response)
           called == <<[provider |-> "mapbox", outcome |-> coords]>>
       IN geocoding' =
              IF ~Raised(coords)
              THEN [geocoding EXCEPT !.pc = "returned", !.called = called,
                                     !.result = Some(coords.val)]
              ELSE [geocoding EXCEPT !.pc = "raised", !.called = called]
    /\ UNCHANGED <<session_vars, is_postgresql, tables, last>>

\* The GET of Mapbox ends: its coordinates are returned, or its exception is
\* caught and the function goes on to the fallback
MapboxResponds(response) ==
    /\ geocoding.pc = "mapbox"
    /\ LET coords == geocode_with_mapbox(response)
           called == <<[provider |-> "mapbox", outcome |-> coords]>>
       IN geocoding' =
              IF ~Raised(coords)
              THEN [geocoding EXCEPT !.pc = "returned", !.called = called,
                                     !.result = Some(coords.val)]
              ELSE GeocodeFallback(geocoding, called)
    /\ UNCHANGED <<session_vars, is_postgresql, tables, last>>

-----------------------------------------------------------------------------
(* Initial states and specification *)

\* Rows seed_database.py inserts for its first property (PostgreSQL only: the
\* script calls ST_GeomFromText); unused_far in tenths, transferable_far in
\* hundredths, tdr_price_per_sf in quarter-dollars
SeedProperties ==
    [p \in {1} |-> [address |-> "123 Broadway",
                    building_area_sf |-> Some(300),
                    land_area_sf |-> Some(50),
                    lot_number |-> "1",
                    block_number |-> "17",
                    zip_code |-> "10007",
                    current_use |-> "Office",
                    geom |-> <<-740121, 407074>>]]

SeedPropertyZoning ==
    {[property_id |-> 1, district_code |-> C_C6_4, percent_in_district |-> 100]}

SeedPropertyTaxIncentives ==
    {[property_id |-> 1, program_code |-> "ICAP", is_eligible |-> TRUE,
      estimated_abatement_value |-> 150000]}

SeedAirRights ==
    {[property_id |-> 1, unused_far |-> 25, transferable_far |-> 180,
      tdr_price_per_sf |-> 182]}

\* After create_db.py (empty tables) or after seed_database.py as well
Init ==
    /\ is_postgresql \in BOOLEAN
    /\ last = [op |-> "init"]
    /\ requests = [r \in Requests |-> NoRequest]
    /\ db_sessions = <<>>
    /\ geocoding = NoCall
    /\ \/ /\ properties = <<>>
          /\ zoning_districts = {}
          /\ tax_incentive_programs = {}
          /\ property_zoning = {}
          /\ property_tax_incentives = {}
          /\ air_rights = {}
       \/ /\ is_postgresql
          /\ properties = SeedProperties
          /\ zoning_districts = SeedZoningDistricts
          /\ tax_incentive_programs = SeedPrograms
          /\ property_zoning = SeedPropertyZoning
          /\ property_tax_incentives = SeedPropertyTaxIncentives
          /\ air_rights = SeedAirRights

Next ==
    \/ \E property_data \in PropertyCreateInputs : CreateProperty(property_data)
    \/ \E property_id \in PropIds, update_data \in UpdateInputs :
          UpdateProperty(property_id, update_data)
    \/ \E property_id \in PropIds : DeleteProperty(property_id)
    \/ \E property_id \in PropIds : GetPropertyFullAnalysis(property_id)
    \/ \E property_id \in PropIds, districts \in DistrictListInputs,
          use_max_far \in BOOLEAN :
          CalculateFar(property_id, districts, use_max_far)
    \/ \E property_id \in PropIds : CalculateTransferableFar(property_id)
    \/ \E property_id \in PropIds : AnalyzeAirRights(property_id)
    \/ \E from_property_id \in PropIds, to_property_id \in PropIds,
          far_to_transfer \in FarInputs :
          SimulateAirRightsTransfer(from_property_id, to_property_id, far_to_transfer)
    \/ \E from_property_id \in PropIds, to_property_id \in PropIds,
          far_to_transfer \in FarInputs, text \in ExceptionTexts :
          SimulateTransfer(from_property_id, to_property_id, far_to_transfer, text)
          /\ UNCHANGED process_vars
    \/ \E property_id \in PropIds : Calculate467mEligibility(property_id)
    \/ \E property_id \in PropIds : CalculateIcapEligibility(property_id)
    \/ \E property_id \in PropIds : CheckTaxIncentiveEligibility(property_id)
    \/ \E property_id \in PropIds, program_code \in ProgramCodeInputs :
          EstimateTaxAbatementValue(property_id, program_code)
    \/ \E property_id \in PropIds : GetSetbackRequirements(property_id)
    \/ \E property_id \in PropIds,
          proposed_building_area_sf \in ProposedAreaInputs,
          districts \in DistrictListInputs :
          ValidateZoningCompliance(property_id, proposed_building_area_sf,
                                   districts)
    \/ \E request \in AnalyzeRequestInputs, text \in ExceptionTexts :
          AnalyzeProperty(request, text)
          /\ UNCHANGED process_vars
    \/ \E property_id \in PropIds, text \in ExceptionTexts,
          is_development \in BOOLEAN :
          GetProperty(property_id, text, is_development)
          /\ UNCHANGED process_vars
    \/ \E property_id \in PropIds, text \in ExceptionTexts :
          GetNearbyLandmarks(property_id, text)
          /\ UNCHANGED process_vars
    \/ \E property_id \in PropIds, proposed_far \in ProposedFarInputs,
          proposed_height \in ProposedHeightInputs, text \in ExceptionTexts :
          CheckZoningCompliance(property_id, proposed_far, proposed_height, text)
          /\ UNCHANGED process_vars
    \/ \E request \in FarCalculatorInputs, text \in ExceptionTexts :
          FarCalculator(request, text)
          /\ UNCHANGED process_vars

    \/ \E address \in SearchAddressInputs : SearchPropertiesByAddress(address)
    \/ \E address \in SearchAddressInputs, state \in SearchStateInputs,
          text \in ExceptionTexts, is_development \in BOOLEAN :
          SearchProperties(address, state, text, is_development)
          /\ UNCHANGED process_vars

    \/ \E geom \in GeomInputs : FindZoningDistricts(geom)
    \/ \E property_id \in PropIds : GetPropertyCentroid(property_id)
    \/ \E property_id \in PropIds : GetZoningSummary(property_id)

    \/ \E r \in Requests : GetDbOpen(r)
    \/ \E r \in Requests : Handle(r)
    \/ \E r \in Requests : GetDbClose(r)

    \/ \E exc \in ExceptionClasses, text \in ExceptionTexts,
          is_development \in BOOLEAN :
          UncaughtException(exc, text, is_development)
          /\ UNCHANGED process_vars

    \/ \E address \in GeocodeAddressInputs, mapbox_token \in BOOLEAN,
          openai_key \in BOOLEAN :
          GeocodeAddress(address, mapbox_token, openai_key)
    \/ \E response \in MapboxResponses : MapboxResponds(response)

    \/ \E district_code \in DistrictCodeInputs, program_code \in {"467-M", "ICAP"} :
          ZoningTest(district_code, program_code)

Spec == Init /\ [][Next]_vars

\* The operations of property_service.py that write the tables
NextStore ==
    \/ \E property_data \in PropertyCreateInputs : CreateProperty(property_data)
    \/ \E property_id \in PropIds, update_data \in UpdateInputs :
          UpdateProperty(property_id, update_data)
    \/ \E property_id \in PropIds : DeleteProperty(property_id)

SpecStore == Init /\ [][NextStore]_vars

\* Creation and update of properties with the full analysis report
NextAnalysis ==
    \/ \E property_data \in PropertyCreateInputs : CreateProperty(property_data)
    \/ \E property_id \in PropIds, update_data \in UpdateInputs :
          UpdateProperty(property_id, update_data)
    \/ \E property_id \in PropIds : GetPropertyFullAnalysis(property_id)

SpecAnalysis == Init /\ [][NextAnalysis]_vars

\* Creation and update of properties with the FAR calculation
NextFar ==
    \/ \E property_data \in PropertyCreateInputs : CreateProperty(property_data)
    \/ \E property_id \in PropIds, update_data \in UpdateInputs :
          UpdateProperty(property_id, update_data)
    \/ \E property_id \in PropIds, districts \in DistrictListInputs,
          use_max_far \in BOOLEAN :
          CalculateFar(property_id, districts, use_max_far)

SpecFar == Init /\ [][NextFar]_vars

\* Creation and update of properties with the calls of air_rights_service.py
NextAirRights ==
    \/ \E property_data \in PropertyCreateInputs : CreateProperty(property_data)
    \/ \E property_id \in PropIds, update_data \in UpdateInputs :
          UpdateProperty(property_id, update_data)
    \/ \E property_id \in PropIds : CalculateTransferableFar(property_id)
    \/ \E property_id \in PropIds : AnalyzeAirRights(property_id)
    \/ \E from_property_id \in PropIds, to_property_id \in PropIds,
          far_to_transfer \in FarInputs :
          SimulateAirRightsTransfer(from_property_id, to_property_id, far_to_transfer)
    \/ \E from_property_id \in PropIds, to_property_id \in PropIds,
          far_to_transfer \in FarInputs, text \in ExceptionTexts :
          SimulateTransfer(from_property_id, to_property_id, far_to_transfer, text)
          /\ UNCHANGED process_vars

SpecAirRights == Init /\ [][NextAirRights]_vars

\* Creation and update of properties with the calls of tax_incentive_service.py
NextTaxIncentives ==
    \/ \E property_data \in PropertyCreateInputs : CreateProperty(property_data)
    \/ \E property_id \in PropIds, update_data \in UpdateInputs :
          UpdateProperty(property_id, update_data)
    \/ \E property_id \in PropIds : Calculate467mEligibility(property_id)
    \/ \E property_id \in PropIds : CalculateIcapEligibility(property_id)
    \/ \E property_id \in PropIds : CheckTaxIncentiveEligibility(property_id)
    \/ \E property_id \in PropIds, program_code \in ProgramCodeInputs :
          EstimateTaxAbatementValue(property_id, program_code)

SpecTaxIncentives == Init /\ [][NextTaxIncentives]_vars

\* Creation and update of properties with the setbacks of zoning_service.py
NextZoning ==
    \/ \E property_data \in PropertyCreateInputs : CreateProperty(property_data)
    \/ \E property_id \in PropIds, update_data \in UpdateInputs :
          UpdateProperty(property_id, update_data)
    \/ \E property_id \in PropIds : GetSetbackRequirements(property_id)
    \/ \E property_id \in PropIds,
          proposed_building_area_sf \in ProposedAreaInputs,
          districts \in DistrictListInputs :
          ValidateZoningCompliance(property_id, proposed_building_area_sf,
                                   districts)

SpecZoning == Init /\ [][NextZoning]_vars

\* The store and the calls of spatial_queries.py
NextSpatial ==
    \/ \E property_data \in PropertyCreateInputs : CreateProperty(property_data)
    \/ \E property_id \in PropIds : DeleteProperty(property_id)
    \/ \E geom \in GeomInputs : FindZoningDistricts(geom)
    \/ \E property_id \in PropIds : GetPropertyCentroid(property_id)
    \/ \E property_id \in PropIds : GetZoningSummary(property_id)

SpecSpatial == Init /\ [][NextSpatial]_vars

\* The requests of the API
NextApi ==
    \/ \E request \in AnalyzeRequestInputs, text \in ExceptionTexts :
          AnalyzeProperty(request, text)
          /\ UNCHANGED process_vars
    \/ \E property_id \in PropIds, text \in ExceptionTexts,
          is_development \in BOOLEAN :
          GetProperty(property_id, text, is_development)
          /\ UNCHANGED process_vars
    \/ \E property_id \in PropIds, text \in ExceptionTexts :
          GetNearbyLandmarks(property_id, text)
          /\ UNCHANGED process_vars
    \/ \E property_id \in PropIds, proposed_far \in ProposedFarInputs,
          proposed_height \in ProposedHeightInputs, text \in ExceptionTexts :
          CheckZoningCompliance(property_id, proposed_far, proposed_height, text)
          /\ UNCHANGED process_vars
    \/ \E request \in FarCalculatorInputs, text \in ExceptionTexts :
          FarCalculator(request, text)
          /\ UNCHANGED process_vars

SpecApi == Init /\ [][NextApi]_vars

\* The exceptions global_exception_handler answers
NextHandlers ==
    \/ \E exc \in ExceptionClasses, text \in ExceptionTexts,
          is_development \in BOOLEAN :
          UncaughtException(exc, text, is_development)
          /\ UNCHANGED process_vars

SpecHandlers == Init /\ [][NextHandlers]_vars

\* The two zoning tests over the district codes
NextZoningTest ==
    \/ \E district_code \in DistrictCodeInputs, program_code \in {"467-M", "ICAP"} :
          ZoningTest(district_code, program_code)

SpecZoningTest == Init /\ [][NextZoningTest]_vars

\* Requests under get_db.  FastAPI awaits the handler of a request it
\* started and then runs the exit code of its dependencies: a handler that
\* can end does end, and a get_db that can resume does resume.
NextSessions ==
    \/ \E r \in Requests : GetDbOpen(r)
    \/ \E r \in Requests : Handle(r)
    \/ \E r \in Requests : GetDbClose(r)

SpecSessions ==
    /\ Init
    /\ [][NextSessions]_vars
    /\ \A r \in Requests : WF_vars(Handle(r)) /\ WF_vars(GetDbClose(r))

\* Calls of geocode_address.  The GET of _geocode_with_mapbox has a timeout
\* of 10 seconds: a call that waits for Mapbox is answered or timed out.
NextGeocoding ==
    \/ \E address \in GeocodeAddressInputs, mapbox_token \in BOOLEAN,
          openai_key \in BOOLEAN :
          GeocodeAddress(address, mapbox_token, openai_key)
    \/ \E response \in MapboxResponses : MapboxResponds(response)

SpecGeocoding ==
    /\ Init
    /\ [][NextGeocoding]_vars
    /\ WF_vars(\E response \in MapboxResponses : MapboxResponds(response))

-----------------------------------------------------------------------------
(* Properties *)

\* Searches over a database that holds any number of rows up to
\* MaxSearchRows, each as create_property writes it for an address without
\* coordinates
InitSearch ==
    /\ is_postgresql \in BOOLEAN
    /\ last = [op |-> "init"]
    /\ requests = [r \in Requests |-> NoRequest]
    /\ db_sessions = <<>>
    /\ geocoding = NoCall
    /\ \E n \in 0..MaxSearchRows :
          properties = [p \in 1..n |-> [address |-> "123 Broadway",
                                        building_area_sf |-> None,
                                        land_area_sf |-> Some(50),
                                        lot_number |-> "None",
                                        block_number |-> "None",
                                        zip_code |-> "None",
                                        current_use |-> "None",
                                        geom |-> <<-740060, 407128>>]]
    /\ zoning_districts = {}
    /\ tax_incentive_programs = {}
    /\ property_zoning = {}
    /\ property_tax_incentives = {}
    /\ air_rights = {}

NextSearch ==
    \/ \E address \in SearchAddressInputs : SearchPropertiesByAddress(address)
    \/ \E address \in SearchAddressInputs, state \in SearchStateInputs,
          text \in ExceptionTexts, is_development \in BOOLEAN :
          SearchProperties(address, state, text, is_development)
          /\ UNCHANGED process_vars

SpecSearch == InitSearch /\ [][NextSearch]_vars

\* C1: referential integrity.  Every property_zoning, property_tax_incentives
\* and air_rights row refers to an existing property, so that deleting a
\* property leaves none of its zoning, tax-incentive or air-rights rows behind.
C1_ReferentialIntegrity ==
    /\ \A r \in property_zoning : r.property_id \in DOMAIN properties
    /\ \A r \in property_tax_incentives : r.property_id \in DOMAIN properties
    /\ \A r \in air_rights : r.property_id \in DOMAIN properties

\* A property that had a row in each of the three child tables was deleted
C1_Witness ==
    /\ last.op = "delete_property"
    /\ last.cascaded = 3
    /\ last.args \notin DOMAIN properties

\* C2: range checks.  Whatever create_property and update_property are given,
\* every stored percent_in_district is within 0..100 and every stored land and
\* building area is non-negative.
C2_RangeChecks ==
    /\ \A r \in property_zoning :
          r.percent_in_district >= 0 /\ r.percent_in_district <= 100
    /\ \A p \in DOMAIN properties :
          /\ properties[p].land_area_sf[1] >= 0
          /\ properties[p].building_area_sf # None
                => properties[p].building_area_sf[1] >= 0

\* C3: create-on-analysis.  After create_property returns the new property,
\* every stored zoning district that contains the property's location has a
\* property_zoning row linking the property to it.
C3_CreateOnAnalysis ==
    (last.op = "create_property" /\ ~Raised(last.result)) =>
        \A z \in zoning_districts :
            GeomOf(last.args) \in z.geom =>
                \E r \in property_zoning :
                    /\ r.property_id = last.result.val
                    /\ r.district_code = z.district_code

\* C4: get_property_full_analysis returns, for the id of an existing property,
\* a report with the sections property (carrying that id), zoning,
\* tax_incentives, air_rights and nearby_landmarks, and raises ValueError for
\* an id that does not exist.
C4_FullAnalysisReport ==
    last.op = "get_property_full_analysis" =>
        IF last.args \in DOMAIN properties
        THEN /\ ~Raised(last.result)
             /\ {"property", "zoning", "tax_incentives", "air_rights",
                 "nearby_landmarks"} \subseteq DOMAIN last.result.val
             /\ last.result.val.property.id = last.args
        ELSE /\ Raised(last.result)
             /\ last.result.exc = "ValueError"

\* C5: for an existing property, calculate_far returns far_effective equal to
\* max_far of the first district when use_max_far is set and base_far of it
\* otherwise, and allowable_building_area_sf equal to lot_area_sf times
\* far_effective; with no district both far_effective and the allowable area
\* are 0 (an area the result does not carry counts as 0).
C5_CalculateFar ==
    (last.op = "calculate_far" /\ last.args[1] \in DOMAIN properties) =>
        LET districts == last.args[2]
            use_max_far == last.args[3]
            r == last.result.val
            far == IF districts = <<>> THEN 0
                   ELSE IF use_max_far THEN districts[1].max_far
                   ELSE districts[1].base_far
        IN /\ r.far_effective = far
           /\ DictGet(r, "allowable_building_area_sf", 0)
                  = DictGet(r, "lot_area_sf", 0) * far

\* C6: for an existing property with a geometry and a positive land area,
\* calculate_transferable_far returns max(0, allowed FAR - building area /
\* land area), the allowed FAR being max_far of the property's zoning district
\* (0 without one); and unused_far, transferable_far and estimated_value of
\* analyze_air_rights are never negative.
C6_TransferableFar ==
    /\ (/\ last.op = "calculate_transferable_far"
        /\ last.args \in DOMAIN properties
        /\ properties[last.args].geom # None
        /\ properties[last.args].land_area_sf[1] > 0) =>
           LET property_obj == properties[last.args]
               zds == find_zoning_districts(property_obj.geom)
               allowed_far == IF zds = <<>> THEN 0 ELSE zds[1].max_far
           IN /\ ~Raised(last.result)
              /\ property_obj.building_area_sf # None =>
                    last.result.val =
                        Max(0, allowed_far
                               - TrueDiv10(property_obj.building_area_sf[1],
                                           property_obj.land_area_sf[1]))
    /\ (last.op = "analyze_air_rights" /\ ~Raised(last.result)) =>
           /\ last.result.val.unused_far >= 0
           /\ last.result.val.transferable_far >= 0
           /\ last.result.val.estimated_value >= 0

\* C7: simulate_air_rights_transfer answers transfer_possible = True only when
\* the recipient is another property than the donor and adjacent to it.
C7_TransferOnlyToAdjacent ==
    (/\ last.op = "simulate_air_rights_transfer"
     /\ ~Raised(last.result)
     /\ last.result.val.transfer_possible) =>
        /\ last.args[2] # last.args[1]
        /\ last.args[2] \in find_adjacent_properties(last.args[1])

\* C8: calculate_467m_eligibility returns a result whose is_eligible is True
\* exactly when the property exists and one of its zoning district codes is
\* C4-7, C6-4, M1-1, M1-2, M2-1 or M2-2; a property whose only district is R10
\* is reported not eligible.
C8_467mEligibility ==
    last.op = "calculate_467m_eligibility" =>
        LET eligible_zones == {<<"C", "4", "-", "7">>, C_C6_4, C_M1_1,
                               <<"M", "1", "-", "2">>, <<"M", "2", "-", "1">>,
                               <<"M", "2", "-", "2">>}
            zds == IF last.args \in DOMAIN properties
                   THEN find_zoning_districts(properties[last.args].geom)
                   ELSE <<>>
            codes == {IF "code" \in DOMAIN zds[i] THEN zds[i].code
                      ELSE zds[i].district_code : i \in DOMAIN zds}
        IN /\ ~Raised(last.result)
           /\ last.result.val.is_eligible <=>
                 (last.args \in DOMAIN properties /\ codes \cap eligible_zones # {})

\* C9: for every existing property check_tax_incentive_eligibility completes
\* without raising and returns a result for 467-M and a result for ICAP.
C9_CheckCompletes ==
    (last.op = "check_tax_incentive_eligibility"
     /\ last.args \in DOMAIN properties) =>
        /\ ~Raised(last.result)
        /\ \E i \in DOMAIN last.result.val :
              last.result.val[i].program_code = "467-M"
        /\ \E i \in DOMAIN last.result.val :
              last.result.val[i].program_code = "ICAP"

\* C10: every eligibility result that calculate_467m_eligibility,
\* calculate_icap_eligibility or check_tax_incentive_eligibility returns has
\* a program_name, a boolean is_eligible and an eligibility_reason, and its
\* estimated_abatement_value is 0 whenever is_eligible is False.
C10_EligibilityResultShape ==
    LET WellFormed(r) ==
            /\ {"program_name", "is_eligible", "eligibility_reason"}
                   \subseteq DOMAIN r
            /\ r.is_eligible \in BOOLEAN
            /\ ~r.is_eligible =>
                   /\ "estimated_abatement_value" \in DOMAIN r
                   /\ r.estimated_abatement_value = 0
    IN /\ (/\ last.op \in {"calculate_467m_eligibility",
                           "calculate_icap_eligibility"}
           /\ ~Raised(last.result)) => WellFormed(last.result.val)
       /\ (last.op = "check_tax_incentive_eligibility" /\ ~Raised(last.result)) =>
              \A i \in DOMAIN last.result.val : WellFormed(last.result.val[i])

\* The eligibility check of an existing property returned its two results,
\* both not eligible
C10_Witness ==
    /\ last.op = "check_tax_incentive_eligibility"
    /\ last.args \in DOMAIN properties
    /\ ~Raised(last.result)
    /\ Len(last.result.val) = 2
    /\ \A i \in DOMAIN last.result.val : ~last.result.val[i].is_eligible

\* C11: estimate_tax_abatement_value returns 0 for a program code for which
\* the property has no eligible result (a code that is not evaluated
\* included), and the estimated_abatement_value of the program's eligible
\* result otherwise.
C11_AbatementEstimate ==
    last.op = "estimate_tax_abatement_value" =>
        LET property_id == last.args[1]
            program_code == last.args[2]
            results == check_tax_incentive_eligibility(property_id)
            eligible == IF Raised(results) THEN {}
                        ELSE {results.val[i] : i \in
                                {j \in DOMAIN results.val :
                                   /\ results.val[j].program_code = program_code
                                   /\ results.val[j].is_eligible}}
        IN /\ ~Raised(last.result)
           /\ IF eligible = {} THEN last.result.val = 0
              ELSE \E r \in eligible :
                      last.result.val = r.estimated_abatement_value

\* C12: for an existing property get_setback_requirements returns, for each of
\* front_ft, side_ft and rear_ft, the largest value of that key over the
\* zoning districts affecting the property.
C12_StrictestSetbacks ==
    (last.op = "get_setback_requirements" /\ last.args \in DOMAIN properties) =>
        LET districts == find_zoning_districts(properties[last.args].geom)
            r == last.result.val
        IN \A key \in {"front_ft", "side_ft", "rear_ft"} :
              \A i \in DOMAIN districts :
                  key \in DOMAIN districts[i].setbacks =>
                      /\ "setbacks" \in DOMAIN r
                      /\ key \in DOMAIN r.setbacks
                      /\ r.setbacks[key] >= districts[i].setbacks[key]
                      /\ \E j \in DOMAIN districts :
                            /\ key \in DOMAIN districts[j].setbacks
                            /\ r.setbacks[key] = districts[j].setbacks[key]

\* C13: analyze_property rejects with HTTP 422 every request whose latitude is
\* outside [-90, 90] or whose longitude is outside [-180, 180], and creates no
\* property record for it.
C13_CoordinateBounds ==
    [][ (/\ last'.op = "analyze_property"
         /\ \/ /\ last'.args.latitude # None
               /\ \/ last'.args.latitude[1] < -900000
                  \/ last'.args.latitude[1] > 900000
            \/ /\ last'.args.longitude # None
               /\ \/ last'.args.longitude[1] < -1800000
                  \/ last'.args.longitude[1] > 1800000)
        => /\ last'.result.status_code = 422
           /\ properties' = properties ]_vars

\* C14: get_property, get_nearby_landmarks and check_zoning_compliance answer
\* HTTP 404 whenever no property record has the requested id.
C14_NotFound ==
    /\ (last.op \in {"get_property", "get_nearby_landmarks"}
        /\ last.args \notin DOMAIN properties)
           => last.result.status_code = 404
    /\ (last.op = "check_zoning_compliance"
        /\ last.args[1] \notin DOMAIN properties)
           => last.result.status_code = 404

\* C15: outside development mode the body of an error response does not
\* depend on the text of the internal exception that caused it: the same
\* failure with any other exception text gets the same response.
C15_ErrorSanitization ==
    (/\ last.op \in {"analyze_property", "get_property",
                     "get_nearby_landmarks", "check_zoning_compliance"}
     /\ last.result.status_code >= 400
     /\ last.exc \notin {"none", "HTTPException", "RequestValidationError"}
     /\ ~last.is_development) =>
        \A text \in ExceptionTexts :
            handler_error(last.op, last.exc, text, FALSE) = last.result

\* C16: a property search returns at most 10 properties, however many rows
\* the properties table holds: the list search_properties_by_address returns
\* and the list in a 200 answer of search_properties have at most 10 entries
C16_SearchLimit ==
    /\ last.op = "search_properties_by_address" => Len(last.result.val) <= 10
    /\ (last.op = "search_properties" /\ last.result.status_code = 200) =>
           Len(last.result.body) <= 10

\* C17: find_zoning_districts returns the empty list whenever no row of
\* zoning_districts has a geometry that intersects the given geometry, in
\* particular when the table is empty
C17_NoDistrictsFound ==
    (/\ last.op = "find_zoning_districts"
     /\ ~\E z \in zoning_districts : last.args \in z.geom) =>
        last.result = Ok(<<>>)

\* C18: get_property_centroid and get_zoning_summary raise ValueError when no
\* row of properties has the id they are called with
C18_MissingPropertyRaises ==
    (/\ last.op \in {"get_property_centroid", "get_zoning_summary"}
     /\ ~Exists(last.args)) =>
        last.result = Raise("ValueError")

\* C19: analysing an address that already has a row reuses the row: no two
\* rows of properties hold the same address
C19_OnePropertyPerAddress ==
    \A p, q \in DOMAIN properties :
        properties[p].address = properties[q].address => p = q

\* C20: every session get_db opens for a request is eventually closed,
\* whether the handler of the request returns or raises, and no session is
\* handed to more than one request
C20_SessionsClosed ==
    /\ [](\A r1, r2 \in Requests :
             (requests[r1].db # None /\ requests[r1].db = requests[r2].db)
                 => r1 = r2)
    /\ \A s \in 1..MaxRequests :
           (s \in DOMAIN db_sessions)
               ~> (s \in DOMAIN db_sessions /\ db_sessions[s].closed)

\* Two requests are over, one whose handler raised and one whose handler
\* returned, and the session of each is closed
C20_Witness ==
    \E r1, r2 \in Requests :
        /\ requests[r1].pc = "done" /\ requests[r1].raised
        /\ requests[r2].pc = "done" /\ ~requests[r2].raised
        /\ db_sessions[requests[r1].db[1]].closed
        /\ db_sessions[requests[r2].db[1]].closed

\* C21: a successful transfer simulation shows the effect on both properties:
\* new_buildable_sf of the recipient is its building area plus far_to_transfer
\* times its land area, and remaining_buildable_sf of the sender is below its
\* original_buildable_sf whenever far_to_transfer > 0
C21_TransferEffect ==
    (last.op = "simulate_air_rights_transfer" /\ ~Raised(last.result)) =>
        LET far_to_transfer == last.args[3]
            to_property == properties[last.args[2]]
            simulation == last.result.val
        IN /\ simulation.to_property.new_buildable_sf =
                  10 * to_property.building_area_sf[1]
                  + far_to_transfer * to_property.land_area_sf[1]
           /\ far_to_transfer > 0 =>
                  /\ simulation.from_property.remaining_buildable_sf # None
                  /\ simulation.from_property.original_buildable_sf # None
                  /\ simulation.from_property.remaining_buildable_sf[1]
                         < simulation.from_property.original_buildable_sf[1]

\* C22: the FAR calculator answers 422 to every request whose lot_area_sf is
\* negative, whatever its other fields are
C22_NegativeLotArea ==
    (/\ last.op = "far_calculator"
     /\ "lot_area_sf" \in DOMAIN last.args
     /\ last.args.lot_area_sf < 0) =>
        last.result.status_code = 422

\* C23: simulate_air_rights_transfer raises ValueError (the API answers 400)
\* when one of the two properties does not exist or far_to_transfer is above
\* calculate_transferable_far of the source; it returns a result (the API
\* answers 200) only when 0 <= far_to_transfer <= that value; and no call
\* changes a table
C23_TransferValidation ==
    [][ last'.op \in {"simulate_air_rights_transfer", "simulate_transfer"} =>
          LET from_property_id == last'.args[1]
              to_property_id == last'.args[2]
              far_to_transfer == last'.args[3]
              available_far == calculate_transferable_far(from_property_id)
              missing == ~Exists(from_property_id) \/ ~Exists(to_property_id)
              exceeds == /\ ~Raised(available_far)
                         /\ far_to_transfer > available_far.val
              raised_ValueError ==
                  IF last'.op = "simulate_air_rights_transfer"
                  THEN last'.result = Raise("ValueError")
                  ELSE last'.result.status_code = 400
              returned ==
                  IF last'.op = "simulate_air_rights_transfer"
                  THEN ~Raised(last'.result)
                  ELSE last'.result.status_code = 200
          IN /\ (missing \/ exceeds) => raised_ValueError
             /\ returned => /\ ~Raised(available_far)
                            /\ 0 <= far_to_transfer
                            /\ far_to_transfer <= available_far.val
             /\ UNCHANGED tables ]_vars

\* C24: once create_property has committed the insert, it returns the new
\* property and the row is in the table with the data of the request, also
\* when a step of the initial analysis raised
C24_CreateSurvivesAnalysis ==
    (last.op = "create_property" /\ "analysis_error" \in DOMAIN last) =>
        /\ ~Raised(last.result)
        /\ Exists(last.result.val)
        /\ properties[last.result.val].address = last.args.address
        /\ properties[last.result.val].land_area_sf = last.args.land_area_sf
        /\ properties[last.result.val].geom = GeomOf(last.args)

\* create_property returned a property whose initial analysis raised
C24_Witness ==
    /\ last.op = "create_property"
    /\ "analysis_error" \in DOMAIN last
    /\ last.analysis_error # "none"
    /\ ~Raised(last.result)
    /\ Exists(last.result.val)

\* C25: global_exception_handler answers a ValueError with 400
\* VALIDATION_ERROR, a PermissionError or another OSError with 403
\* PERMISSION_DENIED, a ConnectionError, or an exception of none of the
\* named classes whose message contains 'database', with 503
\* SERVICE_UNAVAILABLE, a TimeoutError with 504 TIMEOUT_ERROR, and every other
\* exception with 500 INTERNAL_ERROR
C25_ExceptionClassification ==
    last.op = "global_exception_handler" =>
        LET bases == Bases(last.args[1])
            text == last.args[2]
            answered(status_code, error_code) ==
                /\ last.result.status_code = status_code
                /\ last.result.body.error = error_code
                /\ last.result.body.code = error_code
            named == bases \cap {"ValueError", "OSError", "PermissionError",
                                 "ConnectionError", "TimeoutError"}
        IN /\ "ValueError" \in bases => answered(400, "VALIDATION_ERROR")
           /\ "ConnectionError" \in bases => answered(503, "SERVICE_UNAVAILABLE")
           /\ "TimeoutError" \in bases => answered(504, "TIMEOUT_ERROR")
           /\ ("OSError" \in bases /\ "ConnectionError" \notin bases
                   /\ "TimeoutError" \notin bases) =>
                  answered(403, "PERMISSION_DENIED")
           /\ (named = {} /\ MentionsDatabase(text)) =>
                  answered(503, "SERVICE_UNAVAILABLE")
           /\ (named = {} /\ ~MentionsDatabase(text)) =>
                  answered(500, "INTERNAL_ERROR")

\* C26: for an existing property with a land area, checked against a
\* district of its zoning, validate_zoning_compliance returns compliant =
\* True exactly when the proposed building area is at most the land area
\* times the maximum FAR of the district, and its violations list is
\* non-empty exactly when compliant is False
C26_ZoningCompliance ==
    (/\ last.op = "validate_zoning_compliance"
     /\ Exists(last.args[1])
     /\ properties[last.args[1]].land_area_sf # None
     /\ last.args[3] # <<>>) =>
        LET compliance == last.result.val
            allowable == properties[last.args[1]].land_area_sf[1]
                         * last.args[3][1].max_far
        IN /\ compliance.compliant = (last.args[2] <= allowable)
           /\ "violations" \in DOMAIN compliance
           /\ (compliance.violations # <<>>) = ~compliance.compliant

C28_ZoningRuleAgreement ==
    last.op = "zoning_test" =>
        last.result.val.engine = last.result.val.table

====
